---- MODULE Spec2Model ----
(***************************************************************************)
(* Model of bib-enrich-mcp: the BibTeX record model and its conversion to  *)
(* and from bibtexparser's entry dictionaries (bib_parser.py), the three   *)
(* metadata scrapers and scrape_metadata (scrapers.py), and the two        *)
(* orchestration entry points enrich_bib_entry / enrich_bib_file together  *)
(* with _merge_metadata (server.py).                                       *)
(*                                                                         *)
(* Encoding of Python values:                                              *)
(*   - "str | None" is a tuple: << >> is None, <<s>> is the string s;      *)
(*   - "list[str] | None" is a tuple: << >> is None, <<l>> is the list l;  *)
(*   - a dict[str, str] is a function whose DOMAIN is its key set;         *)
(*   - a BibEntry holds its raw_fields dict by REFERENCE: the field is an  *)
(*     address into the variable heap, as Python objects are shared, not   *)
(*     copied, by assignment;                                              *)
(*   - a Python str is a sequence of tokens (<< >> is the empty string),   *)
(*     so that split(" and "), strip(), join, slicing and f-strings are    *)
(*     computed; S("x") is the one-token string;                           *)
(*   - a float confidence c is the integer 100 * c.                        *)
(* The stored .bib file is modelled at the level of bibtexparser's         *)
(* db.entries (a list of field dictionaries): the text syntax itself is    *)
(* the library's business.                                                 *)
(***************************************************************************)
EXTENDS Integers, Sequences, FiniteSets, TLC

----------------------------------------------------------------------------
(* The state.                                                              *)

VARIABLES
    disk,             \* the .bib file: [exists, entries (bibtexparser dicts)]
    op,               \* what runs: "file" (enrich_bib_file), "entry"
                      \* (enrich_bib_entry), "merge" (_merge_metadata called
                      \* on its own), "select" (the max(...) on its own),
                      \* "scraper" (the scrapers' lookups on their own)
    call,             \* enrich_bib_entry's arguments
    pc,               \* "call", "loop", "scrape", "done", "raised", "mutated",
                      \* "rendered"
    entries,          \* enrich_bib_file: the parsed BibEntry list
    idx,              \* enrich_bib_file: 1-based position of the for loop
    updated_entries,  \* enrich_bib_file: the list being built
    enriched_count,   \* enrich_bib_file: its counter
    heap,             \* the raw_fields dict objects, by address
    q,                \* scrape_metadata: the next query (6: return)
    results,          \* scrape_metadata: its results list
    client,           \* scrape_metadata: each scraper's _client (0 is None)
    nhandles,         \* the number of httpx.AsyncClient objects created
    ret,              \* what the entry point returned
    exc,              \* the exception that left the entry point
    attempted,        \* history: the queries of the current scrape_metadata
                      \* call, each with what it handed back
    selected,         \* history: per finished scrape_metadata call, the
                      \* "best" picked from its results (None: no results)
    writes,           \* history: the number of writes to the .bib file
    orig              \* history: the records as first read, raw_fields by value

vars ==
    <<disk, op, call, pc, entries, idx, updated_entries, enriched_count, heap,
      q, results, client, nhandles, ret, exc, attempted, selected, writes, orig>>

----------------------------------------------------------------------------
(* Python values.                                                          *)

None == << >>

Some(x) == <<x>>

\* The one-token string.
S(x) == <<x>>

\* Python truthiness of a "str | None" value: None and "" are falsy.
Truthy(o) == o # None /\ o[1] # << >>

\* Python truthiness of a "list | None" value: None and [] are falsy.
TruthyList(o) == o # None /\ o[1] # << >>

\* Python "a or b" on "str | None" operands.
PyOr(a, b) == IF Truthy(a) THEN a ELSE b

\* Python "a or b" on "list | None" operands.
PyOrList(a, b) == IF TruthyList(a) THEN a ELSE b

\* Python "a or b" on plain str operands.
PyOrStr(a, b) == IF a # << >> THEN a ELSE b

----------------------------------------------------------------------------
(* Python dict helpers.                                                    *)

EmptyDict == [k \in {} |-> << >>]

\* d.get(k, default)
DictGet(d, k, default) == IF k \in DOMAIN d THEN d[k] ELSE default

\* d.get(k) as a "str | None"
DictGetOpt(d, k) == IF k \in DOMAIN d THEN Some(d[k]) ELSE None

\* d[k] = v
DictPut(d, k, v) == [x \in DOMAIN d \cup {k} |-> IF x = k THEN v ELSE d[x]]

\* d.update(u): the keys of u win.
DictUpdate(d, u) ==
    [x \in DOMAIN d \cup DOMAIN u |-> IF x \in DOMAIN u THEN u[x] ELSE d[x]]

----------------------------------------------------------------------------
(* bib_parser.py                                                           *)

\* The delimiter of the author field and the whitespace token.
AND == " and "
SP == " "

\* The field names _dict_to_bib_entry keeps out of raw_fields.
KnownKeys ==
    {"ENTRYTYPE", "ID", "title", "author", "year", "doi", "url", "abstract",
     "booktitle", "journal", "volume", "pages", "publisher", "eprint", "arxiv"}

\* str.split(" and ") on a token sequence: the pieces between AND tokens.
RECURSIVE SplitAnd(_)
SplitAnd(s) ==
    IF \A i \in 1..Len(s) : s[i] # AND
    THEN <<s>>
    ELSE LET i == CHOOSE j \in 1..Len(s) :
                     s[j] = AND /\ \A k \in 1..(j - 1) : s[k] # AND
         IN  <<SubSeq(s, 1, i - 1)>> \o SplitAnd(SubSeq(s, i + 1, Len(s)))

\* str.strip() on a token sequence: leading and trailing whitespace removed.
RECURSIVE Strip(_)
Strip(s) ==
    IF s = << >> THEN s
    ELSE IF s[1] = SP THEN Strip(Tail(s))
    ELSE IF s[Len(s)] = SP THEN Strip(SubSeq(s, 1, Len(s) - 1))
    ELSE s

\* " and ".join(names)
RECURSIVE JoinAnd(_)
JoinAnd(names) ==
    IF names = << >> THEN << >>
    ELSE IF Len(names) = 1 THEN names[1]
    ELSE names[1] \o <<AND>> \o JoinAnd(Tail(names))

_parse_authors(author_string) ==
    IF ~Truthy(author_string) THEN None
    ELSE LET parts == SplitAnd(author_string[1])
             authors == [i \in 1..Len(parts) |-> Strip(parts[i])]
         IN  IF authors # << >> THEN Some(authors) ELSE None

\* A slip: the secondary field is looked at first.
_extract_arxiv_id_ArxivFirst(entry) ==
    IF "arxiv" \in DOMAIN entry THEN Some(entry["arxiv"])
    ELSE IF "eprint" \in DOMAIN entry THEN Some(entry["eprint"])
    ELSE None

_extract_arxiv_id(entry) ==
    IF "eprint" \in DOMAIN entry THEN Some(entry["eprint"])
    ELSE IF "arxiv" \in DOMAIN entry THEN Some(entry["arxiv"])
    ELSE None

\* The raw_fields dict _dict_to_bib_entry builds (a fresh object).
RawFieldsOf(entry) == [k \in DOMAIN entry \ KnownKeys |-> entry[k]]

\* _dict_to_bib_entry; addr is the address its fresh raw_fields dict gets.
_dict_to_bib_entry(entry, addr) ==
    [entry_type |-> DictGet(entry, "ENTRYTYPE", S("misc")),
     cite_key   |-> DictGet(entry, "ID", << >>),
     title      |-> DictGet(entry, "title", << >>),
     authors    |-> _parse_authors(DictGetOpt(entry, "author")),
     year       |-> DictGetOpt(entry, "year"),
     venue      |-> None,
     doi        |-> DictGetOpt(entry, "doi"),
     arxiv_id   |-> _extract_arxiv_id(entry),
     url        |-> DictGetOpt(entry, "url"),
     abstract   |-> DictGetOpt(entry, "abstract"),
     booktitle  |-> DictGetOpt(entry, "booktitle"),
     journal    |-> DictGetOpt(entry, "journal"),
     volume     |-> DictGetOpt(entry, "volume"),
     pages      |-> DictGetOpt(entry, "pages"),
     publisher  |-> DictGetOpt(entry, "publisher"),
     raw_fields |-> addr]

\* "if entry.f: result[k] = entry.f"
PutIf(d, k, o) == IF Truthy(o) THEN DictPut(d, k, o[1]) ELSE d

\* A slip: "result.update(entry.raw_fields)" left out.
_bib_entry_to_dict_NoRaw(entry, h) ==
    LET r0  == [k \in {"ENTRYTYPE", "ID", "title"} |->
                   IF k = "ENTRYTYPE" THEN entry.entry_type
                   ELSE IF k = "ID" THEN entry.cite_key
                   ELSE entry.title]
        r1  == IF TruthyList(entry.authors)
               THEN DictPut(r0, "author", JoinAnd(entry.authors[1]))
               ELSE r0
        r2  == PutIf(r1, "year", entry.year)
        r3  == PutIf(r2, "doi", entry.doi)
        r4  == PutIf(r3, "eprint", entry.arxiv_id)
        r5  == PutIf(r4, "url", entry.url)
        r6  == PutIf(r5, "abstract", entry.abstract)
        r7  == PutIf(r6, "booktitle", entry.booktitle)
        r8  == PutIf(r7, "journal", entry.journal)
        r9  == PutIf(r8, "volume", entry.volume)
        r10 == PutIf(r9, "pages", entry.pages)
    IN  PutIf(r10, "publisher", entry.publisher)

\* _bib_entry_to_dict; h is the heap the entry's raw_fields address points into.
_bib_entry_to_dict(entry, h) ==
    LET r0  == [k \in {"ENTRYTYPE", "ID", "title"} |->
                   IF k = "ENTRYTYPE" THEN entry.entry_type
                   ELSE IF k = "ID" THEN entry.cite_key
                   ELSE entry.title]
        r1  == IF TruthyList(entry.authors)
               THEN DictPut(r0, "author", JoinAnd(entry.authors[1]))
               ELSE r0
        r2  == PutIf(r1, "year", entry.year)
        r3  == PutIf(r2, "doi", entry.doi)
        r4  == PutIf(r3, "eprint", entry.arxiv_id)
        r5  == PutIf(r4, "url", entry.url)
        r6  == PutIf(r5, "abstract", entry.abstract)
        r7  == PutIf(r6, "booktitle", entry.booktitle)
        r8  == PutIf(r7, "journal", entry.journal)
        r9  == PutIf(r8, "volume", entry.volume)
        r10 == PutIf(r9, "pages", entry.pages)
        r11 == PutIf(r10, "publisher", entry.publisher)
    IN  DictUpdate(r11, h[entry.raw_fields])

----------------------------------------------------------------------------
(* scrapers.py: the common result shape.                                   *)

\* The three confidences, as 100 * the float in the source.
ArxivConfidence == 90
DblpConfidence == 85
CrossrefConfidence == 80

\* MetadataResult with every defaulted field at its default.
MetadataDefaults ==
    [title |-> << >>, authors |-> None, year |-> None, venue |-> None,
     doi |-> None, arxiv_id |-> None, booktitle |-> None, journal |-> None,
     volume |-> None, pages |-> None, publisher |-> None,
     source |-> "", confidence |-> 0]

\* What a lookup hands back: a MetadataResult, None, or a raised exception.
Found(r) == [tag |-> "result", val |-> r]
NoResult == [tag |-> "none"]
Raise(e) == [tag |-> "raise", exc |-> e]

\* What an HTTP GET hands back: client.get raised (connection refused,
\* timeout), a body that is not JSON, a JSON document, or an Atom feed.
TransportFailure == [kind |-> "error"]
NotJson == [kind |-> "garbage"]
JsonBody(data) == [kind |-> "json", data |-> data]
XmlBody(feed) == [kind |-> "xml", feed |-> feed]

----------------------------------------------------------------------------
(* JSON values as Python sees them after response.json().                  *)

JNull == [t |-> "null"]
JStr(s) == [t |-> "str", s |-> s]
JNum(repr) == [t |-> "num", repr |-> repr]
JList(l) == [t |-> "list", l |-> l]
JDict(d) == [t |-> "dict", d |-> d]
JEmptyDict == JDict([k \in {} |-> JNull])

IsDict(v) == v.t = "dict"

\* Python truthiness of a JSON value.
JTruthy(v) ==
    CASE v.t = "null" -> FALSE
      [] v.t = "str"  -> v.s # << >>
      [] v.t = "num"  -> v.repr # S("0")
      [] v.t = "list" -> v.l # << >>
      [] v.t = "dict" -> DOMAIN v.d # {}

\* v.get(k, default) on a dict v.
JGet(v, k, default) == IF k \in DOMAIN v.d THEN v.d[k] ELSE default

\* A JSON string-or-null as a "str | None".
JOpt(v) == IF v.t = "null" THEN None ELSE Some(v.s)

\* str(v)
JToStr(v) ==
    CASE v.t = "null" -> S("None")
      [] v.t = "str"  -> v.s
      [] v.t = "num"  -> v.repr

----------------------------------------------------------------------------
(* ArxivScraper.  A feed is what BeautifulSoup finds in the response text: *)
(* entry (is there an <entry>), title (the <title> text, None when the     *)
(* element is missing), names (one "str | None" per <author>: the text of  *)
(* its <name>, None when it has none), published (the <published> text,    *)
(* its first token being its first four characters, None when the element  *)
(* is missing), id (the first match                                        *)
(* of \d+\.\d+ in the <id> text: Some(match), Some(<< >>) for no match,    *)
(* None when the element is missing).                                      *)

ArxivNames(names) ==
    LET F[i \in 0..Len(names)] ==
            IF i = 0 THEN << >>
            ELSE IF names[i] # None THEN Append(F[i - 1], names[i][1])
            ELSE F[i - 1]
    IN  F[Len(names)]

\* A slip: the confidence is scored from the response (no authors: lower).
Arxiv_parse_response_Scored(feed, arxiv_id) ==
    IF ~feed.entry THEN NoResult
    ELSE IF feed.title = None THEN NoResult
    ELSE LET title == feed.title[1]
             authors == ArxivNames(feed.names)
             year == IF feed.published # None
                     THEN Some(SubSeq(feed.published[1], 1, 1)) ELSE None
             aid == IF ~Truthy(arxiv_id)
                    THEN IF feed.id # None /\ feed.id[1] # << >>
                         THEN Some(feed.id[1]) ELSE arxiv_id
                    ELSE arxiv_id
         IN  Found([MetadataDefaults EXCEPT
                       !.title = title,
                       !.authors = IF authors # << >> THEN Some(authors) ELSE None,
                       !.year = year,
                       !.arxiv_id = aid,
                       !.source = "arxiv",
                       !.confidence = IF authors # << >> THEN ArxivConfidence
                                      ELSE ArxivConfidence - 20])

Arxiv_parse_response(feed, arxiv_id) ==
    IF ~feed.entry THEN NoResult
    ELSE IF feed.title = None THEN NoResult
    ELSE LET title == feed.title[1]
             authors == ArxivNames(feed.names)
             year == IF feed.published # None
                     THEN Some(SubSeq(feed.published[1], 1, 1)) ELSE None
             aid == IF ~Truthy(arxiv_id)
                    THEN IF feed.id # None /\ feed.id[1] # << >>
                         THEN Some(feed.id[1]) ELSE arxiv_id
                    ELSE arxiv_id
         IN  Found([MetadataDefaults EXCEPT
                       !.title = title,
                       !.authors = IF authors # << >> THEN Some(authors) ELSE None,
                       !.year = year,
                       !.arxiv_id = aid,
                       !.source = "arxiv",
                       !.confidence = ArxivConfidence])

\* response.text of a body that is no Atom feed holds no <entry>.
ArxivFeedOf(response) ==
    IF response.kind = "xml" THEN response.feed
    ELSE [entry |-> FALSE, title |-> None, names |-> << >>,
          published |-> None, id |-> None]

Arxiv_search_by_arxiv_id(response, arxiv_id) ==
    IF response.kind = "error" THEN Raise("TransportError")
    ELSE Arxiv_parse_response(ArxivFeedOf(response), Some(arxiv_id))

Arxiv_search_by_title(response) ==
    IF response.kind = "error" THEN Raise("TransportError")
    ELSE Arxiv_parse_response(ArxivFeedOf(response), None)

----------------------------------------------------------------------------
(* DBLPScraper.  Only KeyError and IndexError are caught by                *)
(* _parse_response; .get on a value that is no dict raises AttributeError, *)
(* which leaves the lookup.                                                *)

\* The loop of _extract_authors over a list: dicts give their "text",
\* strings themselves, anything else is skipped.
DblpAuthorNames(l) ==
    LET F[i \in 0..Len(l)] ==
            IF i = 0 THEN << >>
            ELSE IF l[i].t = "dict"
                 THEN Append(F[i - 1], JGet(l[i], "text", JStr(<< >>)).s)
            ELSE IF l[i].t = "str" THEN Append(F[i - 1], l[i].s)
            ELSE F[i - 1]
    IN  F[Len(l)]

Dblp_extract_authors(info) ==
    LET holder == JGet(info, "authors", JEmptyDict) IN
    IF ~IsDict(holder) THEN Raise("AttributeError")
    ELSE LET got == JGet(holder, "author", JList(<< >>))
             authors_data == IF IsDict(got) THEN JList(<<got>>) ELSE got
         IN  IF authors_data.t # "list" THEN Raise("TypeError")
             ELSE LET authors == DblpAuthorNames(authors_data.l)
                  IN  Found(IF authors # << >> THEN Some(authors) ELSE None)

Dblp_parse_response(data) ==
    IF ~IsDict(data) THEN Raise("AttributeError")
    ELSE LET result == JGet(data, "result", JNull) IN
    IF ~JTruthy(result) THEN NoResult
    ELSE IF ~IsDict(result) THEN Raise("AttributeError")
    ELSE LET holder == JGet(result, "hits", JEmptyDict) IN
    IF ~IsDict(holder) THEN Raise("AttributeError")
    ELSE LET hits == JGet(holder, "hit", JList(<< >>)) IN
    IF ~JTruthy(hits) THEN NoResult
    ELSE IF IsDict(hits) THEN NoResult          \* hits[0]: KeyError, caught
    ELSE IF hits.t = "str" THEN Raise("AttributeError")   \* "s"[0].get
    ELSE IF hits.t # "list" THEN Raise("TypeError")
    ELSE IF ~IsDict(hits.l[1]) THEN Raise("AttributeError")
    ELSE LET info == JGet(hits.l[1], "info", JEmptyDict) IN
    IF ~IsDict(info) THEN Raise("AttributeError")
    ELSE LET title == JGet(info, "title", JStr(<< >>)) IN
    IF ~JTruthy(title) THEN NoResult
    ELSE LET authors == Dblp_extract_authors(info) IN
    IF authors.tag = "raise" THEN authors
    ELSE Found([MetadataDefaults EXCEPT
                   !.title = title.s,
                   !.authors = authors.val,
                   !.year = JOpt(JGet(info, "year", JNull)),
                   !.venue = JOpt(JGet(info, "venue", JNull)),
                   !.doi = JOpt(JGet(info, "doi", JNull)),
                   !.source = "dblp",
                   !.confidence = DblpConfidence])

Dblp_search_by_title(response) ==
    IF response.kind = "error" THEN Raise("TransportError")
    ELSE IF response.kind # "json" THEN Raise("JSONDecodeError")
    ELSE Dblp_parse_response(response.data)

----------------------------------------------------------------------------
(* CrossRefScraper.  Nothing is caught.  A string where a list of strings  *)
(* is expected ("title", "container-title") is outside the payloads        *)
(* modelled: Python would take its first character.                        *)

\* The loop of _extract_authors: "{given} {family}".strip(), kept if non-empty.
CrossrefAuthorNames(l) ==
    LET F[i \in 0..Len(l)] ==
            IF i = 0 THEN << >>
            ELSE LET name == Strip(JGet(l[i], "given", JStr(<< >>)).s \o <<SP>>
                                   \o JGet(l[i], "family", JStr(<< >>)).s)
                 IN  IF name # << >> THEN Append(F[i - 1], name) ELSE F[i - 1]
    IN  F[Len(l)]

Crossref_extract_authors(work) ==
    LET authors_data == JGet(work, "author", JList(<< >>)) IN
    IF authors_data.t # "list" THEN Raise("TypeError")
    ELSE IF \E i \in 1..Len(authors_data.l) : ~IsDict(authors_data.l[i])
    THEN Raise("AttributeError")
    ELSE LET authors == CrossrefAuthorNames(authors_data.l)
         IN  Found(IF authors # << >> THEN Some(authors) ELSE None)

CrossrefDateKeys == <<"published-print", "published-online", "created">>

\* The loop of _extract_year from the i-th key on.
RECURSIVE CrossrefYearFrom(_, _)
CrossrefYearFrom(work, i) ==
    IF i > Len(CrossrefDateKeys) THEN Found(None)
    ELSE LET holder == JGet(work, CrossrefDateKeys[i], JEmptyDict) IN
    IF ~IsDict(holder) THEN Raise("AttributeError")
    ELSE LET date_parts == JGet(holder, "date-parts", JList(<<JList(<< >>)>>)) IN
    IF JTruthy(date_parts) /\ date_parts.t # "list" THEN Raise("TypeError")
    ELSE IF JTruthy(date_parts) /\ JTruthy(date_parts.l[1])
    THEN IF date_parts.l[1].t # "list" THEN Raise("TypeError")
         ELSE Found(Some(JToStr(date_parts.l[1].l[1])))
    ELSE CrossrefYearFrom(work, i + 1)

Crossref_extract_year(work) == CrossrefYearFrom(work, 1)

\* "x[0] if x else default" on a JSON list of strings.
FirstOr(list, default) == IF JTruthy(list) THEN list.l[1] ELSE default

Crossref_parse_work(work) ==
    IF ~IsDict(work) THEN Raise("AttributeError")
    ELSE LET title_list == JGet(work, "title", JList(<< >>)) IN
    IF JTruthy(title_list) /\ IsDict(title_list) THEN Raise("KeyError")
    ELSE IF JTruthy(title_list) /\ title_list.t # "list" THEN Raise("TypeError")
    ELSE LET title == FirstOr(title_list, JStr(<< >>)) IN
    IF ~JTruthy(title) THEN NoResult
    ELSE LET authors == Crossref_extract_authors(work)
             year == Crossref_extract_year(work)
             journal_list == JGet(work, "container-title", JList(<< >>))
         IN
    IF authors.tag = "raise" THEN authors
    ELSE IF year.tag = "raise" THEN year
    ELSE IF JTruthy(journal_list) /\ journal_list.t # "list" THEN Raise("TypeError")
    ELSE Found([MetadataDefaults EXCEPT
                   !.title = title.s,
                   !.authors = authors.val,
                   !.year = year.val,
                   !.doi = JOpt(JGet(work, "DOI", JNull)),
                   !.journal = JOpt(FirstOr(journal_list, JNull)),
                   !.volume = JOpt(JGet(work, "volume", JNull)),
                   !.pages = JOpt(JGet(work, "page", JNull)),
                   !.source = "crossref",
                   !.confidence = CrossrefConfidence])

Crossref_search_by_doi(response) ==
    IF response.kind = "error" THEN Raise("TransportError")
    ELSE IF response.kind # "json" THEN Raise("JSONDecodeError")
    ELSE LET data == response.data IN
    IF ~IsDict(data) THEN Raise("AttributeError")
    ELSE IF JGet(data, "status", JNull) # JStr(S("ok")) THEN NoResult
    ELSE Crossref_parse_work(JGet(data, "message", JEmptyDict))

Crossref_search_by_title(response) ==
    IF response.kind = "error" THEN Raise("TransportError")
    ELSE IF response.kind # "json" THEN Raise("JSONDecodeError")
    ELSE LET data == response.data IN
    IF ~IsDict(data) THEN Raise("AttributeError")
    ELSE LET message == JGet(data, "message", JEmptyDict) IN
    IF ~IsDict(message) THEN Raise("AttributeError")
    ELSE LET items == JGet(message, "items", JList(<< >>)) IN
    IF ~JTruthy(items) THEN NoResult
    ELSE IF IsDict(items) THEN Raise("KeyError")          \* items[0]
    ELSE IF items.t = "str" THEN Raise("AttributeError")  \* "s"[0].get
    ELSE IF items.t # "list" THEN Raise("TypeError")
    ELSE Crossref_parse_work(items.l[1])

----------------------------------------------------------------------------
(* The responses the providers are let to give (the inputs of the model).  *)

JohnDoe == <<"John", SP, "Doe">>

FeedEmpty ==
    [entry |-> FALSE, title |-> None, names |-> << >>, published |-> None,
     id |-> None]
FeedFull ==
    [entry |-> TRUE, title |-> Some(S("Arxiv Title")),
     names |-> <<Some(JohnDoe), None>>,
     published |-> Some(<<"2024", "-01-15T00:00:00Z">>),
     id |-> Some(S("2401.12345"))]
FeedNoTitle == [FeedFull EXCEPT !.title = None]
FeedEmptyTitle ==
    [entry |-> TRUE, title |-> Some(<< >>), names |-> << >>,
     published |-> None, id |-> Some(<< >>)]

ArxivResponses ==
    {TransportFailure, NotJson}
        \cup {XmlBody(f) : f \in {FeedEmpty, FeedFull, FeedNoTitle, FeedEmptyTitle}}

DblpInfo ==
    JDict(("title" :> JStr(S("Dblp Title")))
          @@ ("authors" :> JDict("author" :> JDict("text" :> JStr(JohnDoe))))
          @@ ("year" :> JStr(S("2023")))
          @@ ("venue" :> JStr(S("NeurIPS")))
          @@ ("doi" :> JStr(S("10.1/dblp"))))
DblpHits(hit) == JDict("result" :> JDict("hits" :> JDict("hit" :> hit)))
DblpData ==
    {JEmptyDict,
     DblpHits(JList(<< >>)),
     DblpHits(JList(<<JDict("info" :> DblpInfo)>>)),
     DblpHits(JList(<<JDict("info" :> JDict("year" :> JStr(S("2023"))))>>)),
     DblpHits(JDict("info" :> DblpInfo)),
     JDict("result" :> JStr(S("oops")))}

DblpResponses == {TransportFailure, NotJson} \cup {JsonBody(d) : d \in DblpData}

CrossrefWork ==
    JDict(("title" :> JList(<<JStr(S("Crossref Title"))>>))
          @@ ("author" :> JList(<<JDict(("given" :> JStr(S("John")))
                                        @@ ("family" :> JStr(S("Doe"))))>>))
          @@ ("published-online" :>
                 JDict("date-parts" :> JList(<<JList(<<JNum(S("2022"))>>)>>)))
          @@ ("DOI" :> JStr(S("10.1/crossref")))
          @@ ("container-title" :> JList(<<JStr(S("Nature"))>>))
          @@ ("volume" :> JStr(S("7")))
          @@ ("page" :> JStr(S("1-10"))))
CrossrefOk(message) ==
    JDict(("status" :> JStr(S("ok"))) @@ ("message" :> message))

CrossrefWorkData ==
    {CrossrefOk(CrossrefWork),
     CrossrefOk(JDict("DOI" :> JStr(S("10.1/crossref")))),
     CrossrefOk(JStr(S("oops"))),
     JDict("status" :> JStr(S("error")))}

CrossrefSearchData ==
    {CrossrefOk(JDict("items" :> JList(<<CrossrefWork>>))),
     CrossrefOk(JDict("items" :> JList(<< >>))),
     CrossrefOk(JDict("items" :> JDict("0" :> CrossrefWork))),
     CrossrefOk(JStr(S("oops")))}

CrossrefWorkResponses ==
    {TransportFailure, NotJson} \cup {JsonBody(d) : d \in CrossrefWorkData}

CrossrefSearchResponses ==
    {TransportFailure, NotJson} \cup {JsonBody(d) : d \in CrossrefSearchData}

----------------------------------------------------------------------------
(* server.py: the pure parts.                                              *)

\* BibEntry(entry_type, cite_key, title) with every other field at its
\* default; addr is the address of the fresh dict default_factory makes.
BibEntry(entry_type, cite_key, title, addr) ==
    [entry_type |-> entry_type, cite_key |-> cite_key, title |-> title,
     authors |-> None, year |-> None, venue |-> None, doi |-> None,
     arxiv_id |-> None, url |-> None, abstract |-> None, booktitle |-> None,
     journal |-> None, volume |-> None, pages |-> None, publisher |-> None,
     raw_fields |-> addr]

\* A slip: the entry's own DOI is preferred to the result's.
_merge_metadata_KeepDoi(entry, result) ==
    [entry_type |-> entry.entry_type,
     cite_key   |-> entry.cite_key,
     title      |-> PyOrStr(result.title, entry.title),
     authors    |-> PyOrList(result.authors, entry.authors),
     year       |-> PyOr(result.year, entry.year),
     venue      |-> PyOr(result.venue, entry.venue),
     doi        |-> PyOr(entry.doi, result.doi),
     arxiv_id   |-> PyOr(result.arxiv_id, entry.arxiv_id),
     url        |-> entry.url,
     abstract   |-> entry.abstract,
     booktitle  |-> PyOr(result.booktitle, entry.booktitle),
     journal    |-> PyOr(result.journal, entry.journal),
     volume     |-> PyOr(result.volume, entry.volume),
     pages      |-> PyOr(result.pages, entry.pages),
     publisher  |-> PyOr(result.publisher, entry.publisher),
     raw_fields |-> entry.raw_fields]

_merge_metadata(entry, result) ==
    [entry_type |-> entry.entry_type,
     cite_key   |-> entry.cite_key,
     title      |-> PyOrStr(result.title, entry.title),
     authors    |-> PyOrList(result.authors, entry.authors),
     year       |-> PyOr(result.year, entry.year),
     venue      |-> PyOr(result.venue, entry.venue),
     doi        |-> PyOr(result.doi, entry.doi),
     arxiv_id   |-> PyOr(result.arxiv_id, entry.arxiv_id),
     url        |-> entry.url,
     abstract   |-> entry.abstract,
     booktitle  |-> PyOr(result.booktitle, entry.booktitle),
     journal    |-> PyOr(result.journal, entry.journal),
     volume     |-> PyOr(result.volume, entry.volume),
     pages      |-> PyOr(result.pages, entry.pages),
     publisher  |-> PyOr(result.publisher, entry.publisher),
     raw_fields |-> entry.raw_fields]

\* A slip: ">=" for ">", so the last of the maximal elements is kept.
MaxByConfidence_Last(rs) ==
    LET F[i \in 1..Len(rs)] ==
            IF i = 1 THEN rs[1]
            ELSE IF rs[i].confidence >= F[i - 1].confidence THEN rs[i]
            ELSE F[i - 1]
    IN  F[Len(rs)]

\* max(results, key=lambda r: r.confidence) on a non-empty list: Python's
\* max keeps the first of the maximal elements.
MaxByConfidence(rs) ==
    LET F[i \in 1..Len(rs)] ==
            IF i = 1 THEN rs[1]
            ELSE IF rs[i].confidence > F[i - 1].confidence THEN rs[i]
            ELSE F[i - 1]
    IN  F[Len(rs)]

\* A slip: the venue is copied as well.
EntryFromBest_WithVenue(cite_key, best, addr) ==
    [BibEntry(S("article"), cite_key, best.title, addr) EXCEPT
        !.authors = best.authors,
        !.year = best.year,
        !.venue = best.venue,
        !.doi = best.doi,
        !.arxiv_id = best.arxiv_id,
        !.journal = best.journal,
        !.volume = best.volume,
        !.pages = best.pages]

\* The BibEntry enrich_bib_entry builds from the best result.
EntryFromBest(cite_key, best, addr) ==
    [BibEntry(S("article"), cite_key, best.title, addr) EXCEPT
        !.authors = best.authors,
        !.year = best.year,
        !.doi = best.doi,
        !.arxiv_id = best.arxiv_id,
        !.journal = best.journal,
        !.volume = best.volume,
        !.pages = best.pages]

\* A slip: the message names the title, not the citation key.
NoMetadataFound_Title(cite_key) ==
    [msg |-> "No metadata found for",
     cite_key |-> IF call.title = None THEN << >> ELSE call.title[1]]

\* The strings the two entry points return, by their parts.
NoMetadataFound(cite_key) == [msg |-> "No metadata found for", cite_key |-> cite_key]
Rendered(d) == [msg |-> "bibtex", entry |-> d]
EnrichedSummary(k, n) == [msg |-> "Enriched", enriched |-> k, total |-> n]
Pending == [msg |-> "pending"]

----------------------------------------------------------------------------
(* scrape_metadata: the five queries in their order.                       *)

\* A slip: a new AsyncClient for every lookup.
_get_client_Fresh(handle, n) == n + 1

\* _get_client (the same in the three scrapers): the handle the scraper
\* holds afterwards -- its own if it has one, else a new AsyncClient, the
\* (n + 1)-th made.  0 is None.
_get_client(handle, n) == IF handle = 0 THEN n + 1 ELSE handle

QueryOrder ==
    <<"arxiv_by_id", "crossref_by_doi", "arxiv_by_title", "dblp_by_title",
      "crossref_by_title">>

\* A slip: the first hit wins and later queries are not made.
Applicable_ShortCircuit(i, a) ==
    /\ results = << >>
    /\ CASE i = 1 -> Truthy(a.arxiv_id)
         [] i = 2 -> Truthy(a.doi)
         [] i \in 3..5 -> Truthy(a.title)

\* "if arxiv_id:", "if doi:", "if title:" -- the guard of the i-th query.
Applicable(i, a) ==
    CASE i = 1 -> Truthy(a.arxiv_id)
      [] i = 2 -> Truthy(a.doi)
      [] i \in 3..5 -> Truthy(a.title)

\* The scraper object the i-th query goes through.
ScraperOf(i) ==
    CASE i \in {1, 3} -> "arxiv"
      [] i \in {2, 5} -> "crossref"
      [] i = 4 -> "dblp"

Responses(i) ==
    CASE i \in {1, 3} -> ArxivResponses
      [] i = 2 -> CrossrefWorkResponses
      [] i = 4 -> DblpResponses
      [] i = 5 -> CrossrefSearchResponses

\* The i-th lookup on the response its GET got.
Lookup(i, a, response) ==
    CASE i = 1 -> Arxiv_search_by_arxiv_id(response, a.arxiv_id[1])
      [] i = 2 -> Crossref_search_by_doi(response)
      [] i = 3 -> Arxiv_search_by_title(response)
      [] i = 4 -> Dblp_search_by_title(response)
      [] i = 5 -> Crossref_search_by_title(response)

\* "if result: results.append(result)"; a MetadataResult is always truthy.
AppendResult(rs, out) == IF out.tag = "result" THEN Append(rs, out.val) ELSE rs

----------------------------------------------------------------------------
(* The inputs.                                                             *)

\* The longest .bib file.
MaxEntries == 2

\* The longest results list handed to max(...) on its own.
MaxResults == 3

\* The most lookups made on scrapers used on their own.
MaxLookups == 2

E1 ==
    ("ENTRYTYPE" :> S("misc")) @@ ("ID" :> S("test2024"))
    @@ ("title" :> S("Test Paper")) @@ ("eprint" :> S("2401.12345"))
E2 ==
    ("ENTRYTYPE" :> S("article")) @@ ("ID" :> S("doe2023"))
    @@ ("doi" :> S("10.1/x")) @@ ("author" :> <<"Doe", AND, SP, "Roe", SP>>)
    @@ ("journal" :> S("Nature")) @@ ("url" :> S("http://keep"))
    @@ ("note" :> S("keep me")) @@ ("venue" :> S("ICML"))
    @@ ("arxiv" :> S("2203.00003"))
E3 ==
    ("ENTRYTYPE" :> S("inproceedings")) @@ ("ID" :> S("roe2022"))
    @@ ("title" :> << >>) @@ ("year" :> << >>) @@ ("keywords" :> S("a, b"))
E4 ==
    ("ENTRYTYPE" :> S("misc")) @@ ("ID" :> S("both2021"))
    @@ ("title" :> S("Both")) @@ ("eprint" :> S("2401.00001"))
    @@ ("arxiv" :> S("9999.99999")) @@ ("doi" :> S("10.1/both"))
    @@ ("booktitle" :> S("Proc")) @@ ("publisher" :> S("ACM"))
    @@ ("abstract" :> S("We show")) @@ ("pages" :> S("5"))

FileEntries == <<E1, E2, E3, E4>>

\* The .bib files: up to MaxEntries of the entries above, citation keys unique.
BibFiles ==
    LET picks == UNION {[1..n -> 1..Len(FileEntries)] : n \in 0..MaxEntries}
        inj == {f \in picks : \A i, j \in DOMAIN f : i # j => f[i] # f[j]}
    IN  {[i \in DOMAIN f |-> FileEntries[f[i]]] : f \in inj}

\* An argument of enrich_bib_entry: None, "" or a value.
ArgValues(v) == {None, Some(<< >>), Some(S(v))}

\* The fields of a BibEntry and of a MetadataResult that hold "x | None",
\* and the three states a field is given: None, empty, a value.
EntryFields ==
    {"title", "authors", "year", "venue", "doi", "arxiv_id", "url", "abstract",
     "booktitle", "journal", "volume", "pages", "publisher"}
ResultFields == EntryFields \ {"url", "abstract"}
FieldStates == {"none", "empty", "value"}

\* The value of field f in state st; who ("entry" or "result") tells the
\* record's value from the candidate's.  title is a plain str (None is not
\* among its values), authors a list of names.
FieldValue(f, st, who) ==
    IF f = "title" THEN (IF st = "value" THEN <<f, who>> ELSE << >>)
    ELSE IF st = "none" THEN None
    ELSE IF st = "empty" THEN Some(<< >>)
    ELSE IF f = "authors" THEN Some(<<<<f, who>>>>)
    ELSE Some(<<f, who>>)

\* The field patterns: every field in one state, but for at most one field
\* in another.
Patterns(fields) ==
    {[f \in fields |-> IF f = dev THEN st ELSE base] :
        base \in FieldStates, dev \in fields, st \in FieldStates}

MergeEntry(pat) ==
    [f \in EntryFields |-> FieldValue(f, pat[f], "entry")]
    @@ [entry_type |-> S("inproceedings"), cite_key |-> S("key"), raw_fields |-> 1]

MergeResult(pat) ==
    [f \in ResultFields |-> FieldValue(f, pat[f], "result")]
    @@ [source |-> "dblp", confidence |-> DblpConfidence]

\* The candidates max(...) is tried on: two of the top confidence, told
\* apart by their titles.
Candidate(title, source, confidence) ==
    [MetadataDefaults EXCEPT
        !.title = S(title), !.source = source, !.confidence = confidence]
SelectCandidates ==
    {Candidate("A", "arxiv", ArxivConfidence),
     Candidate("B", "arxiv", ArxivConfidence),
     Candidate("C", "dblp", DblpConfidence),
     Candidate("D", "crossref", CrossrefConfidence)}

NoCall == [cite_key |-> << >>, title |-> None, arxiv_id |-> None, doi |-> None]
NoClients == [s \in {"arxiv", "dblp", "crossref"} |-> 0]
NoFile == [exists |-> FALSE, entries |-> << >>]

InitCommon ==
    /\ pc = "call"
    /\ idx = 0 /\ updated_entries = << >>
    /\ enriched_count = 0 /\ q = 0
    /\ client = NoClients /\ nhandles = 0
    /\ ret = Pending /\ exc = "" /\ attempted = << >> /\ selected = << >>
    /\ writes = 0

InitFile ==
    /\ op = "file"
    /\ \/ disk = NoFile
       \/ \E f \in BibFiles : disk = [exists |-> TRUE, entries |-> f]
    /\ call = NoCall /\ heap = << >> /\ orig = << >>
    /\ entries = << >> /\ results = << >>
    /\ InitCommon

InitEntry ==
    /\ op = "entry"
    /\ disk = NoFile
    /\ \E t \in ArgValues("Some Paper"), a \in ArgValues("2401.12345"),
          d \in ArgValues("10.1/x") :
          call = [cite_key |-> S("test2024"), title |-> t, arxiv_id |-> a, doi |-> d]
    /\ heap = << >> /\ orig = << >>
    /\ entries = << >> /\ results = << >>
    /\ InitCommon

\* _merge_metadata on its own: any entry and any result of the patterns.
InitMerge ==
    /\ op = "merge"
    /\ disk = NoFile /\ call = NoCall
    /\ \E pe \in Patterns(EntryFields), pr \in Patterns(ResultFields) :
          /\ entries = <<MergeEntry(pe)>>
          /\ results = <<MergeResult(pr)>>
          /\ heap = <<IF pe["url"] = "none" THEN EmptyDict
                      ELSE ("note" :> S("keep me"))>>
    /\ orig = <<[rec |-> entries[1], raw |-> heap[1]]>>
    /\ InitCommon

\* max(results, key=...) on its own: any list of up to MaxResults candidates.
InitSelect ==
    /\ op = "select"
    /\ disk = NoFile /\ call = NoCall
    /\ results \in UNION {[1..n -> SelectCandidates] : n \in 0..MaxResults}
    /\ heap = << >> /\ orig = << >> /\ entries = << >>
    /\ InitCommon

\* The scrapers used on their own: constructed without a client, or all
\* three with the one AsyncClient their caller made (handle 1).
InitScraper ==
    /\ op = "scraper"
    /\ disk = NoFile
    /\ call = [cite_key |-> << >>, title |-> Some(S("Some Paper")),
               arxiv_id |-> Some(S("2401.12345")), doi |-> Some(S("10.1/x"))]
    /\ \/ client = NoClients /\ nhandles = 0
       \/ client = [s \in DOMAIN NoClients |-> 1] /\ nhandles = 1
    /\ heap = << >> /\ orig = << >> /\ entries = << >> /\ results = << >>
    /\ pc = "call" /\ idx = 0 /\ updated_entries = << >>
    /\ enriched_count = 0 /\ q = 0
    /\ ret = Pending /\ exc = "" /\ attempted = << >> /\ selected = << >>
    /\ writes = 0

Init == InitFile \/ InitEntry \/ InitMerge \/ InitSelect \/ InitScraper

----------------------------------------------------------------------------
(* scrape_metadata                                                         *)

\* The arguments of the scrape_metadata call in progress.
ScrapeArgs ==
    IF op = "file"
    THEN [title |-> Some(entries[idx].title),
          arxiv_id |-> entries[idx].arxiv_id,
          doi |-> entries[idx].doi]
    ELSE [title |-> call.title, arxiv_id |-> call.arxiv_id, doi |-> call.doi]

\* Entering scrape_metadata: empty results, three fresh scrapers.
StartScrape ==
    /\ pc' = "scrape" /\ q' = 1 /\ results' = << >>
    /\ client' = NoClients /\ attempted' = << >>

\* "client = await self._get_client()" in a lookup of scraper s.
UseClient(s) ==
    /\ client' = [client EXCEPT ![s] = _get_client(@, nhandles)]
    /\ nhandles' = IF client'[s] = client[s] THEN nhandles ELSE nhandles + 1

\* A slip: an exception of a lookup is caught and counts as no result.
QueryStep_CatchAll(i) ==
    /\ pc = "scrape" /\ q = i
    /\ IF ~Applicable(i, ScrapeArgs)
       THEN /\ q' = i + 1
            /\ UNCHANGED <<pc, results, client, nhandles, exc, attempted>>
       ELSE \E response \in Responses(i) :
              LET out == Lookup(i, ScrapeArgs, response) IN
              /\ UseClient(ScraperOf(i))
              /\ attempted' = Append(attempted, [query |-> QueryOrder[i], out |-> out])
              /\ results' = AppendResult(results, out)
              /\ q' = i + 1
              /\ UNCHANGED <<pc, exc>>
    /\ UNCHANGED <<disk, op, call, entries, idx, updated_entries,
                   enriched_count, heap, ret, selected, writes, orig>>

\* The i-th query of scrape_metadata: skipped when its guard is false;
\* otherwise _get_client, the GET and the parse, and the append.  An
\* exception leaves scrape_metadata and its caller.
QueryStep(i) ==
    /\ pc = "scrape" /\ q = i
    /\ IF ~Applicable(i, ScrapeArgs)
       THEN /\ q' = i + 1
            /\ UNCHANGED <<pc, results, client, nhandles, exc, attempted>>
       ELSE \E response \in Responses(i) :
              LET out == Lookup(i, ScrapeArgs, response) IN
              /\ UseClient(ScraperOf(i))
              /\ attempted' = Append(attempted, [query |-> QueryOrder[i], out |-> out])
              /\ IF out.tag = "raise"
                 THEN /\ pc' = "raised" /\ exc' = out.exc
                      /\ UNCHANGED <<q, results>>
                 ELSE /\ results' = AppendResult(results, out)
                      /\ q' = i + 1
                      /\ UNCHANGED <<pc, exc>>
    /\ UNCHANGED <<disk, op, call, entries, idx, updated_entries,
                   enriched_count, heap, ret, selected, writes, orig>>

\* "best = max(...)" under "if results:"; None when the branch is not taken.
Best(rs) == IF rs # << >> THEN Some(MaxByConfidence(rs)) ELSE None

----------------------------------------------------------------------------
(* enrich_bib_entry                                                        *)

EnrichBibEntry_Call ==
    /\ op = "entry" /\ pc = "call"
    /\ StartScrape
    /\ UNCHANGED <<disk, op, call, entries, idx, updated_entries,
                   enriched_count, heap, nhandles, ret, exc, selected, writes,
                   orig>>

\* After scrape_metadata returned: the message, or the best result rendered.
EnrichBibEntry_Return ==
    /\ op = "entry" /\ pc = "scrape" /\ q = 6
    /\ selected' = Append(selected, Best(results))
    /\ IF results = << >>
       THEN /\ ret' = NoMetadataFound(call.cite_key)
            /\ UNCHANGED <<entries, heap>>
       ELSE LET best == MaxByConfidence(results)
                addr == Len(heap) + 1
                entry == EntryFromBest(call.cite_key, best, addr)
            IN  /\ heap' = Append(heap, EmptyDict)
                /\ entries' = <<entry>>
                /\ ret' = Rendered(_bib_entry_to_dict(entry, heap'))
    /\ pc' = "done"
    /\ UNCHANGED <<disk, op, call, idx, updated_entries, enriched_count, q,
                   results, client, nhandles, exc, attempted, writes, orig>>

----------------------------------------------------------------------------
(* enrich_bib_file                                                         *)

\* A slip: a missing file is read as an empty one.
EnrichBibFile_Parse_MissingIsEmpty ==
    /\ op = "file" /\ pc = "call"
    /\ LET es == IF disk.exists THEN disk.entries ELSE << >> IN
       /\ entries' = [i \in 1..Len(es) |-> _dict_to_bib_entry(es[i], i)]
       /\ heap' = [i \in 1..Len(es) |-> RawFieldsOf(es[i])]
       /\ orig' = [i \in 1..Len(es) |-> [rec |-> entries'[i], raw |-> heap'[i]]]
    /\ idx' = 1
    /\ pc' = "loop" /\ UNCHANGED exc
    /\ UNCHANGED <<disk, op, call, updated_entries, enriched_count, q, results,
                   client, nhandles, ret, attempted, selected, writes>>

\* parse_bib_file: FileNotFoundError, or one BibEntry per entry of the file.
EnrichBibFile_Parse ==
    /\ op = "file" /\ pc = "call"
    /\ IF ~disk.exists
       THEN /\ pc' = "raised" /\ exc' = "FileNotFoundError"
            /\ UNCHANGED <<entries, heap, orig, idx>>
       ELSE /\ entries' = [i \in 1..Len(disk.entries) |->
                              _dict_to_bib_entry(disk.entries[i], i)]
            /\ heap' = [i \in 1..Len(disk.entries) |-> RawFieldsOf(disk.entries[i])]
            /\ orig' = [i \in 1..Len(disk.entries) |->
                           [rec |-> entries'[i], raw |-> heap'[i]]]
            /\ idx' = 1
            /\ pc' = "loop" /\ UNCHANGED exc
    /\ UNCHANGED <<disk, op, call, updated_entries, enriched_count, q, results,
                   client, nhandles, ret, attempted, selected, writes>>

\* The head of "for entry in entries": the next entry's scrape_metadata call.
EnrichBibFile_Next ==
    /\ op = "file" /\ pc = "loop" /\ idx <= Len(entries)
    /\ StartScrape
    /\ UNCHANGED <<disk, op, call, entries, idx, updated_entries,
                   enriched_count, heap, nhandles, ret, exc, selected, writes,
                   orig>>

\* A slip: write_bib_file inside the loop, after every entry.
EnrichBibFile_Collect_WriteEach ==
    /\ op = "file" /\ pc = "scrape" /\ q = 6
    /\ selected' = Append(selected, Best(results))
    /\ IF results # << >>
       THEN /\ updated_entries' =
                   Append(updated_entries,
                          _merge_metadata(entries[idx], MaxByConfidence(results)))
            /\ enriched_count' = enriched_count + 1
       ELSE /\ updated_entries' = Append(updated_entries, entries[idx])
            /\ UNCHANGED enriched_count
    /\ disk' = [exists |-> TRUE,
                entries |-> [i \in 1..Len(updated_entries') |->
                                _bib_entry_to_dict(updated_entries'[i], heap)]]
    /\ writes' = writes + 1
    /\ idx' = idx + 1
    /\ pc' = "loop"
    /\ UNCHANGED <<op, call, entries, heap, q, results, client, nhandles,
                   ret, exc, attempted, orig>>

\* A slip: the counter goes up for every entry, enriched or not.
EnrichBibFile_Collect_CountAll ==
    /\ op = "file" /\ pc = "scrape" /\ q = 6
    /\ selected' = Append(selected, Best(results))
    /\ IF results # << >>
       THEN updated_entries' =
                   Append(updated_entries,
                          _merge_metadata(entries[idx], MaxByConfidence(results)))
       ELSE updated_entries' = Append(updated_entries, entries[idx])
    /\ enriched_count' = enriched_count + 1
    /\ idx' = idx + 1
    /\ pc' = "loop"
    /\ UNCHANGED <<disk, op, call, entries, heap, q, results, client, nhandles,
                   ret, exc, attempted, writes, orig>>

\* The rest of the loop body, after scrape_metadata returned.
EnrichBibFile_Collect ==
    /\ op = "file" /\ pc = "scrape" /\ q = 6
    /\ selected' = Append(selected, Best(results))
    /\ IF results # << >>
       THEN /\ updated_entries' =
                   Append(updated_entries,
                          _merge_metadata(entries[idx], MaxByConfidence(results)))
            /\ enriched_count' = enriched_count + 1
       ELSE /\ updated_entries' = Append(updated_entries, entries[idx])
            /\ UNCHANGED enriched_count
    /\ idx' = idx + 1
    /\ pc' = "loop"
    /\ UNCHANGED <<disk, op, call, entries, heap, q, results, client, nhandles,
                   ret, exc, attempted, writes, orig>>

\* write_bib_file and the return, after the loop.
EnrichBibFile_Write ==
    /\ op = "file" /\ pc = "loop" /\ idx > Len(entries)
    /\ disk' = [exists |-> TRUE,
                entries |-> [i \in 1..Len(updated_entries) |->
                                _bib_entry_to_dict(updated_entries[i], heap)]]
    /\ writes' = writes + 1
    /\ ret' = EnrichedSummary(enriched_count, Len(entries))
    /\ pc' = "done"
    /\ UNCHANGED <<op, call, entries, idx, updated_entries, enriched_count,
                   heap, q, results, client, nhandles, exc, attempted,
                   selected, orig>>

----------------------------------------------------------------------------
(* _merge_metadata and max(...) called on their own, and what a caller can *)
(* do to the BibEntry it got: BibEntry is a plain (unfrozen) dataclass and *)
(* raw_fields a plain dict.                                                *)

Merge_Call ==
    /\ op = "merge" /\ pc = "call"
    /\ updated_entries' = <<_merge_metadata(entries[1], results[1])>>
    /\ pc' = "done"
    /\ UNCHANGED <<disk, op, call, entries, idx, enriched_count, heap, q,
                   results, client, nhandles, ret, exc, attempted, selected,
                   writes, orig>>

\* merged.raw_fields[k] = "changed", for an extra field's name and for the
\* name of a field the record models.
Merged_SetRawField ==
    /\ op = "merge" /\ pc = "done"
    /\ \E k \in {"note", "year"} :
          heap' = [heap EXCEPT ![updated_entries[1].raw_fields] =
                      DictPut(@, k, S("changed"))]
    /\ pc' = "mutated"
    /\ UNCHANGED <<disk, op, call, entries, idx, updated_entries,
                   enriched_count, q, results, client, nhandles, ret, exc,
                   attempted, selected, writes, orig>>

\* merged.url = "changed"
Merged_SetUrl ==
    /\ op = "merge" /\ pc = "done"
    /\ updated_entries' = [updated_entries EXCEPT ![1].url = Some(S("changed"))]
    /\ pc' = "mutated"
    /\ UNCHANGED <<disk, op, call, entries, idx, enriched_count, heap, q,
                   results, client, nhandles, ret, exc, attempted, selected,
                   writes, orig>>

\* entry_to_bibtex(merged): the merged record rendered, as it is or as the
\* caller changed it.
Merged_Render ==
    /\ op = "merge" /\ pc \in {"done", "mutated"}
    /\ ret' = Rendered(_bib_entry_to_dict(updated_entries[1], heap))
    /\ pc' = "rendered"
    /\ UNCHANGED <<disk, op, call, entries, idx, updated_entries,
                   enriched_count, heap, q, results, client, nhandles, exc,
                   attempted, selected, writes, orig>>

\* One lookup on one of the scrapers used on their own; whatever it hands
\* back or raises, the scraper can be used again.
Scraper_Lookup ==
    /\ op = "scraper" /\ pc = "call" /\ Len(attempted) < MaxLookups
    /\ \E i \in 1..5 : \E response \in Responses(i) :
          /\ UseClient(ScraperOf(i))
          /\ attempted' = Append(attempted,
                                 [query |-> QueryOrder[i],
                                  out |-> Lookup(i, ScrapeArgs, response)])
    /\ UNCHANGED <<disk, op, call, pc, entries, idx, updated_entries,
                   enriched_count, heap, q, results, ret, exc, selected,
                   writes, orig>>

Select_Call ==
    /\ op = "select" /\ pc = "call"
    /\ selected' = Append(selected, Best(results))
    /\ pc' = "done"
    /\ UNCHANGED <<disk, op, call, entries, idx, updated_entries,
                   enriched_count, heap, q, results, client, nhandles, ret,
                   exc, attempted, writes, orig>>

Next ==
    \/ EnrichBibEntry_Call
    \/ \E i \in 1..5 : QueryStep(i)
    \/ EnrichBibEntry_Return
    \/ EnrichBibFile_Parse
    \/ EnrichBibFile_Next
    \/ EnrichBibFile_Collect
    \/ EnrichBibFile_Write
    \/ Merge_Call
    \/ Merged_SetRawField
    \/ Merged_SetUrl
    \/ Merged_Render
    \/ Select_Call
    \/ Scraper_Lookup

Spec == Init /\ [][Next]_vars

----------------------------------------------------------------------------
(* The claims.                                                             *)

\* An argument counts as given when it is neither None nor empty.
Given(o) == o # None /\ o # Some(<< >>)

\* The queries among the first n that the arguments call for, in order.
DueQueries(a, n) ==
    LET due(i) == IF i = 1 THEN Given(a.arxiv_id)
                  ELSE IF i = 2 THEN Given(a.doi)
                  ELSE Given(a.title)
        F[i \in 0..n] ==
            IF i = 0 THEN << >>
            ELSE IF due(i) THEN Append(F[i - 1], QueryOrder[i])
            ELSE F[i - 1]
    IN  F[n]

\* The candidates a log of queries yielded, in the order of the log.
YieldedBy(log) ==
    LET F[i \in 0..Len(log)] ==
            IF i = 0 THEN << >>
            ELSE IF log[i].out.tag = "result" THEN Append(F[i - 1], log[i].out.val)
            ELSE F[i - 1]
    IN  F[Len(log)]

\* C1: while scrape_metadata runs and when it returns (q = 6), the queries
\* made so far are exactly those the given arguments call for among the ones
\* passed, in the fixed order arXiv-by-id, CrossRef-by-DOI, arXiv-by-title,
\* DBLP-by-title, CrossRef-by-title -- whatever the earlier ones yielded --
\* and results holds exactly the candidates they yielded, in query order.
C1_QueryOrderNoShortCircuit ==
    pc = "scrape" =>
        /\ [i \in 1..Len(attempted) |-> attempted[i].query]
               = DueQueries(ScrapeArgs, q - 1)
        /\ results = YieldedBy(attempted)

\* C1 witness: all five queries were made, each yielded a candidate, and the
\* result list is in query order, not confidence order (0.8 before 0.9).
C1_Witness ==
    /\ pc = "scrape" /\ q = 6
    /\ Len(attempted) = 5 /\ Len(results) = 5
    /\ results[2].confidence < results[3].confidence
    /\ results[1].source = "arxiv" /\ results[2].source = "crossref"
    /\ results[4].source = "dblp"

\* The states in which a selection was just made from the list in results.
JustSelected ==
    /\ op \in {"file", "entry", "select"}
    /\ pc \in {"loop", "done"}
    /\ selected # << >>

LastSelected == selected[Len(selected)]

\* C2: the selection made from a results list is nothing when the list is
\* empty, and otherwise the first element whose confidence no element
\* exceeds; a list holding confidences 0.9, 0.85 and 0.8 gives a 0.9 one.
\* enrich_bib_file merges exactly that element into the entry (or passes the
\* entry through), enrich_bib_entry builds its entry from it (or reports).
C2_SelectBest ==
    JustSelected =>
        /\ results = << >> => LastSelected = None
        /\ results # << >> =>
              \E i \in 1..Len(results) :
                  /\ LastSelected = Some(results[i])
                  /\ \A j \in 1..Len(results) :
                        results[j].confidence <= results[i].confidence
                  /\ \A j \in 1..(i - 1) :
                        results[j].confidence < results[i].confidence
        /\ {ArxivConfidence, DblpConfidence, CrossrefConfidence}
               \subseteq {results[j].confidence : j \in 1..Len(results)}
              => LastSelected[1].confidence = ArxivConfidence
        /\ op = "file" =>
              updated_entries[idx - 1] =
                  IF LastSelected = None THEN entries[idx - 1]
                  ELSE _merge_metadata(entries[idx - 1], LastSelected[1])
        /\ op = "entry" =>
              IF LastSelected = None THEN ret.msg = "No metadata found for"
              ELSE entries[1].title = LastSelected[1].title

\* C2 witness: enrich_bib_file picked the arXiv-by-id candidate, the first of
\* two different candidates of confidence 0.9 among five.
C2_Witness ==
    /\ op = "file" /\ pc = "loop" /\ selected # << >>
    /\ Len(results) = 5
    /\ LastSelected = Some(results[1])
    /\ results[3].confidence = results[1].confidence
    /\ results[3] # results[1]

\* The ten fields _merge_metadata is said to take from the candidate.
MergeableFields ==
    {"title", "authors", "year", "venue", "doi", "arxiv_id", "journal",
     "volume", "pages", "publisher"}

\* Present and non-empty: not None, not "", not [] (title is a plain str).
NonEmpty(f, v) == IF f = "title" THEN v # << >> ELSE v # None /\ v[1] # << >>

\* The merged record m holds, field by field, the candidate's value where
\* that is present and non-empty and the record's own value elsewhere.
MergedAsClaimed(e, c, m) ==
    \A f \in MergeableFields : m[f] = IF NonEmpty(f, c[f]) THEN c[f] ELSE e[f]

\* C3: whenever _merge_metadata merged a candidate into a record -- called
\* on its own on any record and candidate, or by enrich_bib_file -- each of
\* the ten mergeable fields of the result is the candidate's value if that
\* is present and non-empty, and the record's value otherwise.
C3_MergeFields ==
    /\ op = "merge" /\ pc = "done" =>
          MergedAsClaimed(entries[1], results[1], updated_entries[1])
    /\ op = "file" =>
          \A i \in 1..Len(updated_entries) :
              selected[i] # None =>
                  MergedAsClaimed(entries[i], selected[i][1], updated_entries[i])

\* C3 witness: a record without DOI merged with a candidate that has one
\* ends with the candidate's DOI.
C3_Witness ==
    /\ op = "merge" /\ pc = "done"
    /\ entries[1].doi = None
    /\ results[1].doi = Some(<<"doi", "result">>)
    /\ updated_entries[1].doi = Some(<<"doi", "result">>)
    /\ updated_entries[1].year = entries[1].year
    /\ entries[1].year # None

\* C4: the record _merge_metadata returns has the input's citation key, entry
\* kind, URL, abstract and extra fields, and the input record -- its fields
\* and its extra-field mapping -- stays as it was, after the merge and after
\* any later change made to the merged record.
C4_InputNotMutated ==
    op = "merge" =>
        /\ pc = "done" =>
              /\ updated_entries[1].cite_key = entries[1].cite_key
              /\ updated_entries[1].entry_type = entries[1].entry_type
              /\ updated_entries[1].url = entries[1].url
              /\ updated_entries[1].abstract = entries[1].abstract
              /\ heap[updated_entries[1].raw_fields] = heap[entries[1].raw_fields]
        /\ entries[1] = orig[1].rec
        /\ heap[entries[1].raw_fields] = orig[1].raw

\* C5: enrich_bib_file writes the file at most once; the one write is made
\* when the loop is over -- every entry's queries, selection and merge done
\* -- and a run that returns has made it; no step before that changes the
\* file.
C5_SingleWriteAfterAll ==
    /\ [](op = "file" =>
            /\ writes <= 1
            /\ pc = "done" => writes = 1
            /\ writes = 1 =>
                  /\ pc = "done"
                  /\ Len(updated_entries) = Len(entries)
                  /\ Len(selected) = Len(entries))
    /\ [][op = "file" /\ (disk' # disk \/ writes' # writes) =>
            /\ pc = "loop" /\ idx > Len(entries)
            /\ Len(updated_entries) = Len(entries)
            /\ Len(selected) = Len(entries)
            /\ writes = 0 /\ writes' = 1]_vars

\* C5 witness: a two-entry file, both entries enriched, written once at the
\* end.
C5_Witness ==
    /\ op = "file" /\ pc = "done" /\ writes = 1
    /\ Len(entries) = 2 /\ enriched_count = 2

\* C6: enrich_bib_file on an existing file never ends in an exception,
\* whatever the providers answer: it returns the summary with the counts.
C6_AlwaysReportsCount ==
    op = "file" =>
        /\ pc = "raised" => exc = "FileNotFoundError"
        /\ pc = "done" => ret.msg = "Enriched"

\* The known optional fields of a BibEntry other than authors, each with the
\* field name it is stored under.
StoredAs ==
    [year |-> "year", doi |-> "doi", arxiv_id |-> "eprint", url |-> "url",
     abstract |-> "abstract", booktitle |-> "booktitle", journal |-> "journal",
     volume |-> "volume", pages |-> "pages", publisher |-> "publisher"]

\* The dict d written for a record holds the record rec with extra fields
\* raw: kind, key and title; each non-empty optional field under its name,
\* and no empty one; the authors; and the extra fields, names and values.
WrittenAs(d, rec, raw) ==
    /\ d["ENTRYTYPE"] = rec.entry_type
    /\ d["ID"] = rec.cite_key
    /\ d["title"] = rec.title
    /\ \A f \in DOMAIN StoredAs :
          IF NonEmpty(f, rec[f])
          THEN StoredAs[f] \in DOMAIN d /\ d[StoredAs[f]] = rec[f][1]
          ELSE StoredAs[f] \notin DOMAIN d
    /\ IF NonEmpty("authors", rec.authors)
       THEN "author" \in DOMAIN d
            /\ _parse_authors(Some(d["author"])) = rec.authors
       ELSE "author" \notin DOMAIN d
    /\ DOMAIN d \ KnownKeys = DOMAIN raw
    /\ \A k \in DOMAIN raw : d[k] = raw[k]

\* C7: when enrich_bib_file has returned, every entry no candidate was found
\* for was handed to the writer as it was read (every field, and its extra
\* fields), and the entry written for it holds exactly that record: kind,
\* key, title, every optional field that has a value (one read as the empty
\* string is, like an absent one, not written), and the extra fields.
C7_UnenrichedUnchanged ==
    op = "file" /\ pc = "done" =>
        \A i \in 1..Len(entries) :
            selected[i] = None =>
                /\ updated_entries[i] = orig[i].rec
                /\ heap[updated_entries[i].raw_fields] = orig[i].raw
                /\ WrittenAs(disk.entries[i], orig[i].rec, orig[i].raw)

\* C7 witness: the last entry of the file was queried for, nothing was
\* found, and it has extra fields.
C7_Witness ==
    /\ op = "file" /\ pc = "done"
    /\ selected # << >>
    /\ selected[Len(selected)] = None
    /\ attempted # << >>
    /\ DOMAIN orig[Len(orig)].raw # {}
    /\ orig[Len(orig)].rec.authors # None

C9_NoMetadataMessage ==
    op = "entry" /\ pc = "done" /\ YieldedBy(attempted) = << >> =>
        /\ ret = [msg |-> "No metadata found for", cite_key |-> call.cite_key]
        /\ exc = ""
        /\ entries = << >>

\* C9 witness: title search against the three providers, none with a hit.
C9_Witness ==
    /\ op = "entry" /\ pc = "done"
    /\ Len(attempted) = 3
    /\ \A i \in 1..3 : attempted[i].out.tag = "none"
    /\ ret.msg = "No metadata found for"

\* C10: the entry enrich_bib_entry builds from the selected candidate has the
\* given citation key and the kind "article"; title, authors, year, DOI,
\* arXiv id, journal, volume and pages are the candidate's; venue, URL,
\* abstract, book title and publisher are None and the extra fields empty,
\* whatever the candidate carries; and only those fields are rendered.
C10_BuildFromCandidate ==
    op = "entry" /\ pc = "done" /\ selected[1] # None =>
        LET best == selected[1][1]
            e == entries[1]
        IN  /\ e.cite_key = call.cite_key
            /\ e.entry_type = S("article")
            /\ \A f \in {"title", "authors", "year", "doi", "arxiv_id",
                         "journal", "volume", "pages"} : e[f] = best[f]
            /\ \A f \in {"venue", "url", "abstract", "booktitle", "publisher"} :
                  e[f] = None
            /\ heap[e.raw_fields] = EmptyDict
            /\ ret.msg = "bibtex"
            /\ WrittenAs(ret.entry, e, EmptyDict)

\* C10 witness: the selected candidate is DBLP's, which carries a venue.
C10_Witness ==
    /\ op = "entry" /\ pc = "done" /\ selected[1] # None
    /\ selected[1][1].source = "dblp"
    /\ selected[1][1].venue # None
    /\ entries[1].venue = None

\* The optional fields of a BibEntry that hold a "str | None".
OptionalFields ==
    {"year", "venue", "doi", "arxiv_id", "url", "abstract", "booktitle",
     "journal", "volume", "pages", "publisher"}

\* C11: parsing what was serialized gives the records back: when
\* enrich_bib_file has written its records, each entry of the file parses to
\* a record with the citation key, entry kind and title of the record it was
\* written from, with the same value in every optional field the record had
\* populated (authors, year, venue, DOI, arXiv id, URL, abstract, book title,
\* journal, volume, pages, publisher), and with the same extra fields.
C11_RoundTrip ==
    op = "file" /\ pc = "done" =>
        \A i \in 1..Len(updated_entries) :
            LET rec == updated_entries[i]
                back == _dict_to_bib_entry(disk.entries[i], i)
            IN  /\ back.cite_key = rec.cite_key
                /\ back.entry_type = rec.entry_type
                /\ back.title = rec.title
                /\ \A f \in OptionalFields \cup {"authors"} :
                      NonEmpty(f, rec[f]) => back[f] = rec[f]
                /\ RawFieldsOf(disk.entries[i]) = heap[rec.raw_fields]

\* The confidence each source tag is said to carry, as 100 * the float.
ClaimedConfidence(source) ==
    CASE source = "arxiv" -> 90
      [] source = "dblp" -> 85
      [] source = "crossref" -> 80

\* The provider a query goes to.
ProviderOf(query) ==
    CASE query \in {"arxiv_by_id", "arxiv_by_title"} -> "arxiv"
      [] query = "dblp_by_title" -> "dblp"
      [] query \in {"crossref_by_doi", "crossref_by_title"} -> "crossref"

\* C12: every candidate a lookup hands back carries its provider's source tag
\* and the confidence of that tag -- 0.9 arXiv, 0.85 DBLP, 0.8 CrossRef --
\* whatever the response held, and so does every element of scrape_metadata's
\* results; hence the selection is an arXiv candidate whenever one is among
\* the results, and a CrossRef candidate only when there is no other kind.
C12_ConfidenceBySource ==
    /\ \A i \in 1..Len(attempted) :
          attempted[i].out.tag = "result" =>
              /\ attempted[i].out.val.source = ProviderOf(attempted[i].query)
              /\ attempted[i].out.val.confidence
                     = ClaimedConfidence(attempted[i].out.val.source)
    /\ op \in {"file", "entry"} =>
          \A i \in 1..Len(results) :
              results[i].confidence = ClaimedConfidence(results[i].source)
    /\ JustSelected /\ op \in {"file", "entry"} /\ LastSelected # None =>
          /\ (\E j \in 1..Len(results) : results[j].source = "arxiv")
                 => LastSelected[1].source = "arxiv"
          /\ LastSelected[1].source = "crossref"
                 => \A j \in 1..Len(results) : results[j].source = "crossref"

\* C12 witness: CrossRef answered first, then arXiv (a feed without authors)
\* and DBLP; the arXiv candidate was selected.
C12_Witness ==
    /\ op = "entry" /\ pc = "done" /\ selected # << >>
    /\ Len(results) >= 3
    /\ results[1].source = "crossref"
    /\ \E j \in 1..Len(results) : results[j].source = "dblp"
    /\ LastSelected # None
    /\ LastSelected[1].source = "arxiv"
    /\ LastSelected[1].authors = None

\* The exceptions a parser raises on a payload of an unexpected shape.
ShapeErrors == {"AttributeError", "KeyError", "TypeError", "IndexError"}

\* C13: no lookup of any of the three providers lets such an exception out:
\* a JSON or XML payload of an unexpected shape (a field missing, a string or
\* list where an object is expected, an object where a list is expected)
\* makes the lookup hand back no candidate, and neither entry point ends in
\* such an exception.
C13_MalformedIsNoResult ==
    /\ \A i \in 1..Len(attempted) :
          attempted[i].out.tag = "raise" => attempted[i].out.exc \notin ShapeErrors
    /\ exc \notin ShapeErrors

\* C14: enrich_bib_file on a path that does not exist ends in
\* FileNotFoundError and in nothing else: it returns nothing, no provider is
\* queried and no HTTP client is made, and the path stays without a file.
C14_MissingFileRaises ==
    /\ [](op = "file" /\ ~disk.exists =>
            /\ pc \in {"call", "raised"}
            /\ pc = "raised" => exc = "FileNotFoundError"
            /\ ret = Pending
            /\ attempted = << >> /\ nhandles = 0 /\ results = << >>
            /\ writes = 0)
    /\ [][op = "file" /\ ~disk.exists =>
            /\ ~disk'.exists
            /\ pc' = "raised" /\ exc' = "FileNotFoundError"]_vars

\* C14 witness: the call on a missing path has raised FileNotFoundError.
C14_Witness ==
    /\ op = "file" /\ pc = "raised" /\ exc = "FileNotFoundError"
    /\ ~disk.exists /\ writes = 0 /\ attempted = << >>

\* C15: every record parsed from the file (the file being as it was read)
\* has for arXiv identifier the value of the entry's "eprint" field if the
\* entry has one, else the value of its "arxiv" field if it has one, else
\* none; and neither name is among the record's extra fields.
C15_ArxivIdSource ==
    op = "file" /\ disk.exists /\ pc # "call" /\ writes = 0 =>
        /\ Len(entries) = Len(disk.entries)
        /\ \A i \in 1..Len(entries) :
              LET d == disk.entries[i] IN
              /\ entries[i].arxiv_id =
                     IF "eprint" \in DOMAIN d THEN Some(d["eprint"])
                     ELSE IF "arxiv" \in DOMAIN d THEN Some(d["arxiv"])
                     ELSE None
              /\ {"eprint", "arxiv"} \cap DOMAIN heap[entries[i].raw_fields] = {}

\* C15 witness: a file with an entry holding both fields and one holding
\* "arxiv" only has been parsed.
C15_Witness ==
    /\ op = "file" /\ pc = "loop" /\ idx = 1 /\ Len(entries) = 2
    /\ {"eprint", "arxiv"} \subseteq DOMAIN disk.entries[1]
    /\ entries[1].arxiv_id = Some(disk.entries[1]["eprint"])
    /\ disk.entries[1]["arxiv"] # disk.entries[1]["eprint"]
    /\ "eprint" \notin DOMAIN disk.entries[2]
    /\ "arxiv" \in DOMAIN disk.entries[2]
    /\ entries[2].arxiv_id = Some(disk.entries[2]["arxiv"])

\* The dict d serialized for the record rec with extra fields raw is as
\* claimed: kind, key and title are the record's; each optional field is
\* there exactly when the record's value is non-empty, with that value; every
\* extra field is there; and nothing else is.
SerializedAsClaimed(d, rec, raw) ==
    /\ d["ENTRYTYPE"] = rec.entry_type
    /\ d["ID"] = rec.cite_key
    /\ d["title"] = rec.title
    /\ \A f \in DOMAIN StoredAs :
          IF NonEmpty(f, rec[f])
          THEN StoredAs[f] \in DOMAIN d /\ d[StoredAs[f]] = rec[f][1]
          ELSE StoredAs[f] \notin DOMAIN d
    /\ IF NonEmpty("authors", rec.authors)
       THEN "author" \in DOMAIN d /\ d["author"] = JoinAnd(rec.authors[1])
       ELSE "author" \notin DOMAIN d
    /\ \A k \in DOMAIN raw \ KnownKeys : k \in DOMAIN d /\ d[k] = raw[k]
    /\ DOMAIN d \subseteq KnownKeys \cup DOMAIN raw

\* C16: every record serialized -- the merged record rendered by
\* entry_to_bibtex, the record enrich_bib_entry renders, the records
\* enrich_bib_file writes -- comes out as claimed, also when its extra-field
\* mapping holds the name of a field the record models.
C16_SerializeKnownFields ==
    /\ op = "merge" /\ pc = "rendered" =>
          SerializedAsClaimed(ret.entry, updated_entries[1],
                              heap[updated_entries[1].raw_fields])
    /\ op = "entry" /\ pc = "done" /\ ret.msg = "bibtex" =>
          SerializedAsClaimed(ret.entry, entries[1], heap[entries[1].raw_fields])
    /\ op = "file" /\ pc = "done" =>
          \A i \in 1..Len(updated_entries) :
              SerializedAsClaimed(disk.entries[i], updated_entries[i],
                                  heap[updated_entries[i].raw_fields])

\* C17: every candidate a lookup hands back has a non-empty title, and so
\* has every element of scrape_metadata's results and every candidate
\* selected from them.
C17_CandidateHasTitle ==
    /\ \A i \in 1..Len(attempted) :
          attempted[i].out.tag = "result" => attempted[i].out.val.title # << >>
    /\ op \in {"file", "entry"} =>
          /\ \A i \in 1..Len(results) : results[i].title # << >>
          /\ \A i \in 1..Len(selected) :
                selected[i] # None => selected[i][1].title # << >>

\* A step in which scrape_metadata constructs its three scrapers.
NewScrapers == pc # "scrape" /\ pc' = "scrape"

\* C18: a scraper's client handle, once it has one -- supplied at
\* construction or made by a lookup -- never changes; a handle is made only
\* by a lookup on a scraper that has none (none is made at construction or by
\* a skipped query), it is a new one, and no other scraper's handle changes
\* in that step.
C18_ClientReuse ==
    /\ [][\A s \in DOMAIN client :
            IF NewScrapers
            THEN client'[s] = 0 /\ nhandles' = nhandles
            ELSE /\ client[s] # 0 => client'[s] = client[s]
                 /\ client'[s] # client[s] =>
                       /\ Len(attempted') = Len(attempted) + 1
                       /\ ProviderOf(attempted'[Len(attempted')].query) = s
                       /\ client'[s] = nhandles + 1
                       /\ nhandles' = nhandles + 1
                       /\ \A t \in DOMAIN client \ {s} : client'[t] = client[t]]_vars
    /\ [][nhandles' # nhandles =>
            \E s \in DOMAIN client : client[s] = 0 /\ client'[s] = nhandles']_vars

\* C18 witness: one scrape_metadata call made all five lookups, two on the
\* arXiv scraper and two on the CrossRef one, with three handles in all.
C18_Witness ==
    /\ op = "entry" /\ pc = "scrape" /\ q = 6
    /\ Len(attempted) = 5
    /\ nhandles = 3
    /\ client = [arxiv |-> 1, crossref |-> 2, dblp |-> 3]

\* A lookup of the scrape_metadata call in progress met a transport error.
TransportFailed ==
    \E i \in 1..Len(attempted) : attempted[i].out = Raise("TransportError")

\* C19: when a lookup made by enrich_bib_file meets a transport error --
\* at whichever entry and whichever provider -- that lookup is the last one
\* made, enrich_bib_file ends in that error and returns nothing, nothing
\* happens after it, and the file is as it was read: no write was made, not
\* even of the entries merged before.
C19_TransportErrorAborts ==
    /\ [](op = "file" /\ TransportFailed =>
            /\ pc = "raised" /\ exc = "TransportError"
            /\ ret = Pending
            /\ \A i \in 1..Len(attempted) :
                  attempted[i].out = Raise("TransportError") => i = Len(attempted)
            /\ writes = 0
            /\ Len(disk.entries) = Len(orig)
            /\ \A i \in 1..Len(orig) :
                  /\ _dict_to_bib_entry(disk.entries[i], i) = orig[i].rec
                  /\ RawFieldsOf(disk.entries[i]) = orig[i].raw)
    /\ [][op = "file" =>
            /\ pc # "raised"
            /\ disk' # disk => writes' = writes + 1
            /\ TransportFailed' => disk' = disk]_vars

\* C19 witness: the first entry of a two-entry file was enriched and merged;
\* the second entry's second lookup met a transport error; nothing was
\* written.
C19_Witness ==
    /\ op = "file" /\ pc = "raised" /\ exc = "TransportError"
    /\ Len(entries) = 2 /\ idx = 2
    /\ enriched_count = 1 /\ Len(updated_entries) = 1
    /\ updated_entries[1] # entries[1]
    /\ Len(attempted) >= 2
    /\ writes = 0

====
